---- MODULE Spec2Model ----
(***************************************************************************)
(* Model of the logrus PostgreSQL hook (package pglogrus), as of the       *)
(* version with filters and an exported Ticker: src/postgresql_hook.go     *)
(* lines 153-395.                                                          *)
(*                                                                         *)
(* Hook       : Extra, filters, db, synchronous Fire.                      *)
(* AsyncHook  : buf (bounded channel), flush (unbuffered channel), wg      *)
(*              (sync.WaitGroup), Ticker, the background goroutine fire(). *)
(*                                                                         *)
(* A log entry is [id, Data]: Data is the field mapping, id stands for     *)
(* the fields newEntry copies unchanged (Logger, Time, Level, Caller,      *)
(* Message) and makes every fired entry distinguishable.                   *)
(***************************************************************************)
EXTENDS Integers, Sequences, FiniteSets, TLC

\* ---------------------------------------------------------------- bounds
\* Capacity of buf. The program's default is 8192; it is a package variable
\* the user sets before NewAsyncHook.
BufSize == 2
\* Total number of Fire calls.
MaxFires == 3
\* Number of Fire calls in SpecHook, where the callers' fields, the extra
\* fields and the filters vary.
MaxHookFires == 2
\* Number of AddFilter/Blacklist calls.
MaxFilters == 2

Producers == {"p1", "p2"}
Flushers == {"f1", "f2"}

\* Field names. "filterMe" and "ignore" are the keys of the repository's test.
Keys == {"filterMe", "ignore"}

\* -------------------------------------------------------- field mappings
\* map[string]interface{}: a function from a set of keys to values.
EmptyMap == [k \in {} |-> "own"]

\* The caller's field mappings: every key set, values marked "own".
RawData == {[k \in S |-> "own"] : S \in SUBSET Keys}

\* The field mappings fired in Spec: one that passes the test's filters
\* (losing "filterMe") and one that the test's filter discards.
TestData == {[k \in {"filterMe"} |-> "own"], [k \in {"ignore"} |-> "own"]}

\* The extra fields given to NewHook: values marked "extra".
ExtraSet == {EmptyMap, [k \in {"filterMe"} |-> "extra"]}

\* The nil *logrus.Entry.
Nil == [id |-> 0, Data |-> EmptyMap]

\* data[k] = v for every k, v of src, on top of dst.
MergeInto(dst, src) ==
    [k \in (DOMAIN dst) \cup (DOMAIN src) |->
        IF k \in DOMAIN src THEN src[k] ELSE dst[k]]

\* delete(entry.Data, name) for every name of the slice.
RECURSIVE DeleteAll(_, _, _)
DeleteAll(data, names, i) ==
    IF i > Len(names) THEN data
    ELSE DeleteAll([k \in (DOMAIN data) \ {names[i]} |-> data[k]], names, i + 1)

\* ---------------------------------------------------------------- filters
\* type filter func(*logrus.Entry) *logrus.Entry. A filter value is
\*   [kind |-> "blacklist", keys |-> <<...>>]  what blackListFilter(b) returns
\*   [kind |-> "drop",      keys |-> <<k>>]    the test's filter: nil when k is a field
\*   [kind |-> "set",       keys |-> <<k>>]    a user filter that sets field k
blackListFilter(blacklist) == [kind |-> "blacklist", keys |-> blacklist]

DropFilter(k) == [kind |-> "drop", keys |-> <<k>>]

SetFilter(k) == [kind |-> "set", keys |-> <<k>>]

\* The filters a caller registers with AddFilter.
UserFilters == {DropFilter("ignore"), SetFilter("filterMe")}

\* The slices a caller passes to Blacklist.
BlacklistArgs == {<<"filterMe">>}

\* fn(entry): the entry the filter returns, Nil when it discards.
ApplyFilter(fn, entry) ==
    CASE fn.kind = "blacklist" ->
            [entry EXCEPT !.Data = DeleteAll(entry.Data, fn.keys, 1)]
      [] fn.kind = "drop" ->
            IF fn.keys[1] \in DOMAIN entry.Data THEN Nil ELSE entry
      [] fn.kind = "set" ->
            [entry EXCEPT !.Data = MergeInto(entry.Data, [k \in {fn.keys[1]} |-> "set"])]

\* Mutant: the loop goes on after a filter has returned nil (the nil entry
\* is handed to the filters that follow, which leave it alone).
RECURSIVE RunFiltersNoBreak(_, _, _)
RunFiltersNoBreak(e, fs, i) ==
    IF i > Len(fs) THEN [e |-> e, calls |-> i - 1, last |-> e.Data]
    ELSE LET n == IF e = Nil THEN Nil ELSE ApplyFilter(fs[i], e)
             rest == RunFiltersNoBreak(n, fs, i + 1)
         IN  IF n = Nil THEN [rest EXCEPT !.last = e.Data] ELSE rest

\* Mutant: the filters are run from the last registered to the first.
RECURSIVE RunFiltersReversed(_, _, _)
RunFiltersReversed(e, fs, i) ==
    IF i > Len(fs) THEN [e |-> e, calls |-> i - 1, last |-> e.Data]
    ELSE LET n == ApplyFilter(fs[Len(fs) + 1 - i], e)
         IN  IF n = Nil THEN [e |-> Nil, calls |-> i, last |-> e.Data]
             ELSE RunFiltersReversed(n, fs, i + 1)

\* The loop "for _, fn := range hook.filters": e is the entry so far, i the
\* index of the next filter. calls is the number of filters invoked, last
\* the content of the mapping the filters worked on when the loop ended
\* (a filter that returns nil leaves the mapping as it got it).
RECURSIVE RunFilters(_, _, _)
RunFilters(e, fs, i) ==
    IF i > Len(fs) THEN [e |-> e, calls |-> i - 1, last |-> e.Data]
    ELSE LET n == ApplyFilter(fs[i], e)
         IN  IF n = Nil THEN [e |-> Nil, calls |-> i, last |-> e.Data]
             ELSE RunFilters(n, fs, i + 1)

\* Mutant: data is the caller's mapping itself, not a new one.
NewDataAliasesCaller(entry) == [map |-> entry.Data, alias |-> TRUE]

\* data := map[string]interface{}{}: a new, empty mapping, which is not the
\* object entry.Data refers to (alias: the two are one object).
NewData(entry) == [map |-> EmptyMap, alias |-> FALSE]

\* Hook.newEntry: a fresh mapping, the extra fields, then the entry's own
\* fields on top (own: entry.Data as the second loop reads it), then the
\* filters in order. caller is the content of the caller's entry.Data when
\* newEntry returns: what the loops and the filters wrote, iff data is the
\* same object.
newEntry(entry, extra, fs) ==
    LET new == NewData(entry)
        merged == MergeInto(new.map, extra)
        own == IF new.alias THEN merged ELSE entry.Data
        data == MergeInto(merged, own)
        r == RunFilters([id |-> entry.id, Data |-> data], fs, 1)
    IN  [e |-> r.e, calls |-> r.calls,
         caller |-> IF new.alias THEN r.last ELSE entry.Data]

\* ------------------------------------------------------------------ state
VARIABLES
    Extra,       \* Hook.Extra
    filters,     \* Hook.filters
    buf,         \* AsyncHook.buf: the entries in the channel, oldest first
    wg,          \* AsyncHook.wg: the WaitGroup counter
    tick,        \* a tick is waiting in Ticker.C (a channel of capacity 1)
    Ticker,      \* AsyncHook.Ticker: who stored the ticker the field refers to,
                 \* with the history of what was at stake then
    rows,        \* db: the committed rows of table logs, oldest first
    txnRows,     \* db: the rows inserted in the open transaction, not committed
    txlog,       \* db: one record per transaction begun, by transaction number
    ppc,         \* producer: where it is in AsyncHook.Fire
    pent,        \* producer: newEntry of its Fire call in progress
    fpc,         \* flusher: where it is in AsyncHook.Flush
    fgot,        \* flusher: who sent the value it received from hook.flush
    overlap,     \* history: a Fire call and a Flush call have overlapped in time
    cpc,         \* goroutine fire(): where it is
    txn,         \* goroutine fire(): txn, a transaction number (0: none)
    numEntries,  \* goroutine fire(): numEntries
    centry,      \* goroutine fire(): entry, as received from buf
    di,          \* goroutine fire(): i of the wg.Done loop
    fireLog,     \* history: one record per Fire call, by entry id
    pushed,      \* history: ids in the order their send on buf completed
    attempts,    \* history: the InsertFunc calls, in order
    commitSeq    \* history: transaction numbers in the order of txn.Commit()

hookVars == <<Extra, filters>>
asyncVars == <<buf, wg, tick, Ticker>>
dbVars == <<rows, txnRows, txlog>>
prodVars == <<ppc, pent>>
flushVars == <<fpc, fgot, overlap>>
commVars == <<cpc, txn, numEntries, centry, di>>
histVars == <<fireLog, pushed, attempts, commitSeq>>
vars == <<hookVars, asyncVars, dbVars, prodVars, flushVars, commVars, histVars>>

\* NewAsyncHook, but for the fields of the embedded Hook: an empty channel,
\* a zero counter, the goroutine fire() started and about to begin its first
\* transaction; no thread is in Fire or Flush.
Started ==
    /\ buf = <<>>
    /\ wg = 0
    /\ tick = FALSE
    /\ Ticker = [by |-> "NewAsyncHook", queued |-> FALSE, inserted |-> FALSE]
    /\ rows = <<>>
    /\ txnRows = <<>>
    /\ txlog = <<>>
    /\ ppc = [p \in Producers |-> "idle"]
    /\ pent = [p \in Producers |-> Nil]
    /\ fpc = [f \in Flushers |-> "idle"]
    /\ fgot = [f \in Flushers |-> "none"]
    /\ overlap = FALSE
    /\ cpc = "begin"
    /\ txn = 0
    /\ numEntries = 0
    /\ centry = Nil
    /\ di = 0
    /\ fireLog = <<>>
    /\ pushed = <<>>
    /\ attempts = <<>>
    /\ commitSeq = <<>>

\* NewHook: the extra fields as given, no filter.
InitHook ==
    /\ Extra \in ExtraSet
    /\ filters = <<>>
    /\ Started

\* The filters of the repository's test, in the order it registers them.
TestFilters == <<blackListFilter(<<"filterMe">>), DropFilter("ignore")>>

\* The hook as the repository's test sets it up before it fires anything:
\* NewAsyncHook(db, {}), Blacklist({"filterMe"}), AddFilter(drop on "ignore").
Init ==
    /\ Extra = EmptyMap
    /\ filters = TestFilters
    /\ Started

\* The value of hook.Ticker after `by` has stored a new ticker in it: who did,
\* and whether entries were then in buf and in the open transaction.
TickerOf(by) == [by |-> by, queued |-> buf # <<>>, inserted |-> txnRows # <<>>]

\* ------------------------------------------------------- filter registration
\* Hook.AddFilter: hook.filters = append(hook.filters, fn).
AddFilter(fn) ==
    /\ Len(filters) < MaxFilters
    /\ filters' = Append(filters, fn)
    /\ UNCHANGED <<Extra, asyncVars, dbVars, prodVars, flushVars, commVars, histVars>>

\* Hook.Blacklist: hook.AddFilter(blackListFilter(b)).
Blacklist(b) == AddFilter(blackListFilter(b))

\* ------------------------------------------------------------------- Fire
\* The record of a Fire call: the caller's fields, the number of filters
\* registered when newEntry ran (filters only grows, so these are the first
\* nfs of it), what newEntry returned, how many filters it invoked, and the
\* error Fire returned.
FireRecord(mode, d, r) ==
    [mode |-> mode, raw |-> d, nfs |-> Len(filters), out |-> r.e, calls |-> r.calls,
     after |-> r.caller, ret |-> "nil"]

\* Mutant: Hook.Fire drops the error of InsertFunc and returns nil.
SyncFireSwallowsError(p, d, ok) ==
    /\ ppc[p] = "idle"
    /\ Len(fireLog) < MaxFires
    /\ LET id == Len(fireLog) + 1
           r == newEntry([id |-> id, Data |-> d], Extra, filters)
       IN  /\ fireLog' = Append(fireLog, FireRecord("sync", d, r))
           /\ IF r.e = Nil
              THEN UNCHANGED <<rows, attempts>>
              ELSE /\ attempts' = Append(attempts, [e |-> r.e, txn |-> 0, ok |-> ok])
                   /\ rows' = IF ok THEN Append(rows, r.e) ELSE rows
    /\ UNCHANGED <<hookVars, asyncVars, txnRows, txlog, prodVars, flushVars, commVars,
                   pushed, commitSeq>>

\* Hook.Fire: newEntry, nothing more for a nil entry, else one
\* hook.InsertFunc(hook.db, newEntry) whose error is returned. The default
\* insertFunc is a single db.Exec outside any transaction: its row is
\* committed when it succeeds.
SyncFire(p, d, ok) ==
    /\ ppc[p] = "idle"
    /\ Len(fireLog) < MaxFires
    /\ LET id == Len(fireLog) + 1
           r == newEntry([id |-> id, Data |-> d], Extra, filters)
       IN  IF r.e = Nil
           THEN /\ fireLog' = Append(fireLog, FireRecord("sync", d, r))
                /\ UNCHANGED <<rows, attempts>>
           ELSE /\ fireLog' = Append(fireLog,
                       [FireRecord("sync", d, r) EXCEPT !.ret = IF ok THEN "nil" ELSE "err"])
                /\ attempts' = Append(attempts, [e |-> r.e, txn |-> 0, ok |-> ok])
                /\ rows' = IF ok THEN Append(rows, r.e) ELSE rows
    /\ UNCHANGED <<hookVars, asyncVars, txnRows, txlog, prodVars, flushVars, commVars,
                   pushed, commitSeq>>

\* AsyncHook.Fire up to "if newEntry == nil { return nil }".
FireNewEntry(p, d) ==
    /\ ppc[p] = "idle"
    /\ Len(fireLog) < MaxFires
    /\ LET id == Len(fireLog) + 1
           r == newEntry([id |-> id, Data |-> d], Extra, filters)
       IN  /\ fireLog' = Append(fireLog, FireRecord("async", d, r))
           /\ overlap' = (overlap \/ \E f \in Flushers : fpc[f] # "idle")
           /\ IF r.e = Nil
              THEN UNCHANGED <<ppc, pent>>
              ELSE /\ ppc' = [ppc EXCEPT ![p] = "add"]
                   /\ pent' = [pent EXCEPT ![p] = r.e]
    /\ UNCHANGED <<hookVars, asyncVars, dbVars, fpc, fgot, commVars,
                   pushed, attempts, commitSeq>>

\* newEntry step by step, for the threads that run it while others register
\* filters. First step: hook.mu.RLock() (a read lock: any number of threads
\* hold it together) and the building of data and of the new entry. The
\* Fire call is recorded with the number of filters registered so far.
NewEntryRLock(p, d) ==
    /\ ppc[p] = "idle"
    /\ Len(fireLog) < MaxFires
    /\ LET id == Len(fireLog) + 1
       IN  /\ fireLog' = Append(fireLog,
                  [mode |-> "async", raw |-> d, nfs |-> Len(filters), out |-> Nil,
                   calls |-> 0, after |-> d, ret |-> "nil"])
           /\ ppc' = [ppc EXCEPT ![p] = "build"]
           /\ pent' = [pent EXCEPT ![p] = [id |-> id, Data |-> d]]
    /\ UNCHANGED <<hookVars, asyncVars, dbVars, flushVars, commVars,
                   pushed, attempts, commitSeq>>

\* Second step: "for _, fn := range hook.filters", RUnlock and the return to
\* AsyncHook.Fire. AddFilter writes hook.filters without hook.mu, so the
\* read of hook.filters is not ordered with the appends made since RLock:
\* the loop ranges over the first n filters, n anywhere from the number at
\* RLock to the number now.
NewEntryRange(p, n) ==
    /\ ppc[p] = "build"
    /\ LET id == pent[p].id
           r == newEntry(pent[p], Extra, SubSeq(filters, 1, n))
       IN  /\ n \in fireLog[id].nfs .. Len(filters)
           /\ fireLog' = [fireLog EXCEPT ![id].nfs = n, ![id].out = r.e,
                                         ![id].calls = r.calls, ![id].after = r.caller]
           /\ IF r.e = Nil
              THEN /\ ppc' = [ppc EXCEPT ![p] = "idle"]
                   /\ pent' = [pent EXCEPT ![p] = Nil]
              ELSE /\ ppc' = [ppc EXCEPT ![p] = "add"]
                   /\ pent' = [pent EXCEPT ![p] = r.e]
    /\ UNCHANGED <<hookVars, asyncVars, dbVars, flushVars, commVars,
                   pushed, attempts, commitSeq>>

\* Mutant: Fire sends the entry without hook.wg.Add(1).
FireNoAdd(p) ==
    /\ ppc[p] = "add"
    /\ ppc' = [ppc EXCEPT ![p] = "push"]
    /\ UNCHANGED <<hookVars, asyncVars, dbVars, pent, flushVars, commVars, histVars>>

\* AsyncHook.Fire: hook.wg.Add(1).
FireAdd(p) ==
    /\ ppc[p] = "add"
    /\ wg' = wg + 1
    /\ ppc' = [ppc EXCEPT ![p] = "push"]
    /\ UNCHANGED <<hookVars, buf, tick, Ticker, dbVars, pent, flushVars, commVars, histVars>>

\* Mutant: a send on a full channel overwrites the newest entry.
SendOverwrites(p) ==
    /\ ppc[p] = "push"
    /\ buf' = IF Len(buf) < BufSize THEN Append(buf, pent[p])
              ELSE Append(SubSeq(buf, 1, Len(buf) - 1), pent[p])
    /\ pushed' = Append(pushed, pent[p].id)
    /\ ppc' = [ppc EXCEPT ![p] = "idle"]
    /\ pent' = [pent EXCEPT ![p] = Nil]
    /\ UNCHANGED <<hookVars, wg, tick, Ticker, dbVars, flushVars, commVars,
                   fireLog, attempts, commitSeq>>

\* Mutant: buf behaves as an unbuffered channel, the send completes only
\* when fire() is in its select to take the entry.
SendWaitsForReceiver(p) ==
    /\ ppc[p] = "push"
    /\ buf = <<>>
    /\ cpc = "select"
    /\ buf' = Append(buf, pent[p])
    /\ pushed' = Append(pushed, pent[p].id)
    /\ ppc' = [ppc EXCEPT ![p] = "idle"]
    /\ pent' = [pent EXCEPT ![p] = Nil]
    /\ UNCHANGED <<hookVars, wg, tick, Ticker, dbVars, flushVars, commVars,
                   fireLog, attempts, commitSeq>>

\* AsyncHook.Fire: hook.buf <- newEntry; return nil. The send blocks while
\* the channel holds BufSize entries.
FirePush(p) ==
    /\ ppc[p] = "push"
    /\ Len(buf) < BufSize
    /\ buf' = Append(buf, pent[p])
    /\ pushed' = Append(pushed, pent[p].id)
    /\ ppc' = [ppc EXCEPT ![p] = "idle"]
    /\ pent' = [pent EXCEPT ![p] = Nil]
    /\ UNCHANGED <<hookVars, wg, tick, Ticker, dbVars, flushVars, commVars,
                   fireLog, attempts, commitSeq>>

\* The Ticker delivers a tick; a tick that finds one waiting is dropped.
Tick ==
    /\ ~tick
    /\ tick' = TRUE
    /\ UNCHANGED Ticker
    /\ UNCHANGED <<hookVars, buf, wg, dbVars, prodVars, flushVars, commVars, histVars>>

\* ------------------------------------------------------------------ Flush
\* Flush is called and blocks in hook.wg.Wait().
FlushCall(f) ==
    /\ fpc[f] = "idle"
    /\ fpc' = [fpc EXCEPT ![f] = "wait"]
    /\ overlap' = (overlap \/ \E p \in Producers : ppc[p] # "idle")
    /\ UNCHANGED <<hookVars, asyncVars, dbVars, prodVars, fgot, commVars, histVars>>

\* Mutant: Flush does not wait for the counter.
FlushNoWait(f) ==
    /\ fpc[f] \in {"idle", "wait"}
    /\ fpc' = [fpc EXCEPT ![f] = "send"]
    /\ overlap' = (overlap \/ \E p \in Producers : ppc[p] # "idle")
    /\ UNCHANGED <<hookVars, asyncVars, dbVars, prodVars, fgot, commVars, histVars>>

\* Flush: hook.wg.Wait() returns when the counter is zero. A thread blocked
\* in Wait has changed nothing yet: where the moment of the call does not
\* matter it is modelled as not having called, and this step is the call
\* and the return of Wait in one.
FlushWait(f) ==
    /\ fpc[f] \in {"idle", "wait"}
    /\ wg = 0
    /\ fpc' = [fpc EXCEPT ![f] = "send"]
    /\ overlap' = (overlap \/ \E p \in Producers : ppc[p] # "idle")
    /\ UNCHANGED <<hookVars, asyncVars, dbVars, prodVars, fgot, commVars, histVars>>

\* Flush: hook.flush <- true, taken by "case <-hook.flush" of fire()'s select.
\* flush is unbuffered: the send and the receive are one step.
FlushSend(f) ==
    /\ fpc[f] = "send"
    /\ cpc = "select"
    /\ fpc' = [fpc EXCEPT ![f] = "recv"]
    /\ cpc' = "fcommit"
    /\ UNCHANGED <<hookVars, asyncVars, dbVars, prodVars, fgot, overlap,
                   txn, numEntries, centry, di, histVars>>

\* Flush: hook.flush <- true of thread f, taken by "<-hook.flush" of another
\* thread g that is in Flush too: the channel is the same in both directions.
FlushSendToFlusher(f, g) ==
    /\ f # g
    /\ fpc[f] = "send"
    /\ fpc[g] = "recv"
    /\ fpc' = [fpc EXCEPT ![f] = "recv", ![g] = "done"]
    /\ fgot' = [fgot EXCEPT ![g] = "flusher"]
    /\ UNCHANGED <<hookVars, asyncVars, dbVars, prodVars, overlap, commVars, histVars>>

\* Mutant: the reconfiguration case leaves the select loop as the flush case
\* would, without Commit: the transaction is dropped and the next one begun.
FlushEveryRestarts ==
    /\ cpc = "select"
    /\ Ticker' = TickerOf("fire")
    /\ tick' = FALSE
    /\ txnRows' = <<>>
    /\ cpc' = "begin"
    /\ UNCHANGED <<hookVars, buf, wg, rows, txlog, prodVars, flushVars,
                   txn, numEntries, centry, di, histVars>>

\* FlushEvery(d), as the specification describes it: the caller sends the new
\* interval on a dedicated channel, fire() receives it in its select loop,
\* replaces its ticker and stays in the loop. The send and the receipt are
\* one step (a rendezvous); the new ticker has no tick waiting.
FlushEvery ==
    /\ cpc = "select"
    /\ Ticker' = TickerOf("fire")
    /\ tick' = FALSE
    /\ UNCHANGED <<hookVars, buf, wg, dbVars, prodVars, flushVars, commVars, histVars>>

\* A thread other than fire() stores a new ticker in the exported field:
\* h.Ticker = time.NewTicker(100 * time.Millisecond), while fire() reads
\* hook.Ticker.C in its selects. The write and the reads are not ordered:
\* fire() goes on with the old ticker, whose waiting tick stays, or with
\* the new one, which has none.
SetTicker ==
    /\ Ticker' = TickerOf("caller")
    /\ tick' \in {tick, FALSE}
    /\ UNCHANGED <<hookVars, buf, wg, dbVars, prodVars, flushVars, commVars, histVars>>

\* ----------------------------------------------------------------- the db
\* txn.Commit() on transaction t: its rows are committed when it succeeds and
\* lost when it fails; either way the transaction is over.
DbCommit(t, ok, by) ==
    /\ rows' = IF ok THEN rows \o txnRows ELSE rows
    /\ txnRows' = <<>>
    /\ txlog' = [txlog EXCEPT ![t].commit = IF ok THEN "ok" ELSE "fail", ![t].by = by]
    /\ commitSeq' = Append(commitSeq, t)

\* ------------------------------------------------------ goroutine fire()
\* txn, err := hook.db.Begin(): a new transaction, or an error and the wait
\* for a tick.
CommitterBegin(ok) ==
    /\ cpc = "begin"
    /\ IF ok
       THEN /\ txlog' = Append(txlog, [ins |-> 0, commit |-> "none", by |-> "none", done |-> 0])
            /\ txn' = Len(txlog) + 1
            /\ numEntries' = 0
            /\ cpc' = "select"
       ELSE /\ cpc' = "retry"
            /\ UNCHANGED <<txlog, txn, numEntries>>
    /\ UNCHANGED <<hookVars, asyncVars, rows, txnRows, prodVars, flushVars,
                   centry, di, histVars>>

\* Mutant: after a failed Begin the loop starts over at once.
RetryNoWait ==
    /\ cpc = "retry"
    /\ cpc' = "begin"
    /\ UNCHANGED <<hookVars, asyncVars, dbVars, prodVars, flushVars,
                   txn, numEntries, centry, di, histVars>>

\* After a failed Begin: select { case <-hook.Ticker.C: continue }.
CommitterRetry ==
    /\ cpc = "retry"
    /\ tick
    /\ tick' = FALSE
    /\ UNCHANGED Ticker
    /\ cpc' = "begin"
    /\ UNCHANGED <<hookVars, buf, wg, dbVars, prodVars, flushVars,
                   txn, numEntries, centry, di, histVars>>

\* Mutant: the newest entry of the channel is received first.
ReceiveNewest ==
    /\ cpc = "select"
    /\ buf # <<>>
    /\ centry' = buf[Len(buf)]
    /\ buf' = SubSeq(buf, 1, Len(buf) - 1)
    /\ cpc' = "insert"
    /\ UNCHANGED <<hookVars, wg, tick, Ticker, dbVars, prodVars, flushVars,
                   txn, numEntries, di, histVars>>

\* select: case entry := <-hook.buf.
CommitterReceive ==
    /\ cpc = "select"
    /\ buf # <<>>
    /\ centry' = Head(buf)
    /\ buf' = Tail(buf)
    /\ cpc' = "insert"
    /\ UNCHANGED <<hookVars, wg, tick, Ticker, dbVars, prodVars, flushVars,
                   txn, numEntries, di, histVars>>

\* Mutant: wg.Done() right after the insert, as before entries were batched
\* in a transaction.
InsertDoneEarly(ok) ==
    /\ cpc = "insert"
    /\ attempts' = Append(attempts, [e |-> centry, txn |-> txn, ok |-> ok])
    /\ txnRows' = IF ok THEN Append(txnRows, centry) ELSE txnRows
    /\ txlog' = [txlog EXCEPT ![txn].ins = @ + 1]
    /\ numEntries' = numEntries + 1
    /\ wg' = wg - 1
    /\ centry' = Nil
    /\ cpc' = "select"
    /\ UNCHANGED <<hookVars, buf, tick, Ticker, rows, prodVars, flushVars,
                   txn, di, fireLog, pushed, commitSeq>>

\* err = hook.InsertFunc(txn, entry); numEntries++ (also when err != nil).
CommitterInsert(ok) ==
    /\ cpc = "insert"
    /\ attempts' = Append(attempts, [e |-> centry, txn |-> txn, ok |-> ok])
    /\ txnRows' = IF ok THEN Append(txnRows, centry) ELSE txnRows
    /\ txlog' = [txlog EXCEPT ![txn].ins = @ + 1]
    /\ numEntries' = numEntries + 1
    /\ centry' = Nil
    /\ cpc' = "select"
    /\ UNCHANGED <<hookVars, asyncVars, rows, prodVars, flushVars,
                   txn, di, fireLog, pushed, commitSeq>>

\* Mutant: every tick leaves the select loop.
TickAlwaysCommits ==
    /\ cpc = "select"
    /\ tick
    /\ tick' = FALSE
    /\ UNCHANGED Ticker
    /\ cpc' = "commit"
    /\ UNCHANGED <<hookVars, buf, wg, dbVars, prodVars, flushVars,
                   txn, numEntries, centry, di, histVars>>

\* Mutant: the tick case never leaves the select loop.
TickNeverCommits ==
    /\ cpc = "select"
    /\ tick
    /\ tick' = FALSE
    /\ UNCHANGED Ticker
    /\ cpc' = "select"
    /\ UNCHANGED <<hookVars, buf, wg, dbVars, prodVars, flushVars,
                   txn, numEntries, centry, di, histVars>>

\* select: case <-hook.Ticker.C: if numEntries > 0 { break Loop }.
CommitterTick ==
    /\ cpc = "select"
    /\ tick
    /\ tick' = FALSE
    /\ UNCHANGED Ticker
    /\ cpc' = IF numEntries > 0 THEN "commit" ELSE "select"
    /\ UNCHANGED <<hookVars, buf, wg, dbVars, prodVars, flushVars,
                   txn, numEntries, centry, di, histVars>>

\* Mutant: a failed Commit ends the goroutine.
CommitFailureExits(ok) ==
    /\ cpc = "commit"
    /\ DbCommit(txn, ok, "tick")
    /\ di' = 0
    /\ cpc' = IF ok THEN "done" ELSE "term"
    /\ UNCHANGED <<hookVars, asyncVars, prodVars, flushVars,
                   txn, numEntries, centry, fireLog, pushed, attempts>>

\* After Loop: err = txn.Commit(), an error is only printed.
CommitterCommit(ok) ==
    /\ cpc = "commit"
    /\ DbCommit(txn, ok, "tick")
    /\ di' = 0
    /\ cpc' = "done"
    /\ UNCHANGED <<hookVars, asyncVars, prodVars, flushVars,
                   txn, numEntries, centry, fireLog, pushed, attempts>>

\* for i := 0; i < numEntries; i++ { hook.wg.Done() }, one Done per step;
\* after the last one the outer loop starts over.
CommitterDone ==
    /\ cpc = "done"
    /\ di < numEntries
    /\ wg' = wg - 1
    /\ txlog' = [txlog EXCEPT ![txn].done = @ + 1]
    /\ di' = di + 1
    /\ cpc' = IF di + 1 < numEntries THEN "done" ELSE "begin"
    /\ UNCHANGED <<hookVars, buf, tick, Ticker, rows, txnRows, prodVars, flushVars,
                   txn, numEntries, centry, histVars>>

\* Mutant: the flush case answers without committing the open transaction.
FlushCaseNoCommit(ok) ==
    /\ cpc = "fcommit"
    /\ cpc' = "ack"
    /\ UNCHANGED <<hookVars, asyncVars, dbVars, prodVars, flushVars,
                   txn, numEntries, centry, di, histVars>>

\* select: case <-hook.flush: err = txn.Commit().
CommitterFlushCommit(ok) ==
    /\ cpc = "fcommit"
    /\ DbCommit(txn, ok, "flush")
    /\ cpc' = "ack"
    /\ UNCHANGED <<hookVars, asyncVars, prodVars, flushVars,
                   txn, numEntries, centry, di, fireLog, pushed, attempts>>

\* Mutant: after its answer to Flush, fire() starts its outer loop over.
AckAndContinue(f) ==
    /\ cpc = "ack"
    /\ fpc[f] = "recv"
    /\ cpc' = "begin"
    /\ fpc' = [fpc EXCEPT ![f] = "done"]
    /\ fgot' = [fgot EXCEPT ![f] = "committer"]
    /\ UNCHANGED <<hookVars, asyncVars, dbVars, prodVars, overlap,
                   txn, numEntries, centry, di, histVars>>

\* Mutant: the flush case returns without its answer on hook.flush.
AckDropped(f) ==
    /\ cpc = "ack"
    /\ fpc[f] = "recv"
    /\ cpc' = "term"
    /\ UNCHANGED <<hookVars, asyncVars, dbVars, prodVars, flushVars,
                   txn, numEntries, centry, di, histVars>>

\* The flush case: hook.flush <- true; return. The value is taken by a
\* "<-hook.flush" of a thread in Flush.
CommitterAck(f) ==
    /\ cpc = "ack"
    /\ fpc[f] = "recv"
    /\ cpc' = "term"
    /\ fpc' = [fpc EXCEPT ![f] = "done"]
    /\ fgot' = [fgot EXCEPT ![f] = "committer"]
    /\ UNCHANGED <<hookVars, asyncVars, dbVars, prodVars, overlap,
                   txn, numEntries, centry, di, histVars>>

\* ------------------------------------------------------ the specifications
\* Spec: the asynchronous hook of the test. Producers fire entries, threads
\* call Flush, the Ticker ticks, the goroutine fire() runs, and Begin,
\* InsertFunc and Commit succeed or fail.
Next ==
    \/ \E p \in Producers, d \in TestData : FireNewEntry(p, d)
    \/ \E p \in Producers : FireAdd(p)
    \/ \E p \in Producers : FirePush(p)
    \/ Tick
    \/ \E f \in Flushers : FlushWait(f)
    \/ \E f \in Flushers : FlushSend(f)
    \/ \E f, g \in Flushers : FlushSendToFlusher(f, g)
    \/ \E ok \in BOOLEAN : CommitterBegin(ok)
    \/ CommitterRetry
    \/ CommitterReceive
    \/ \E ok \in BOOLEAN : CommitterInsert(ok)
    \/ CommitterTick
    \/ \E ok \in BOOLEAN : CommitterCommit(ok)
    \/ CommitterDone
    \/ \E ok \in BOOLEAN : CommitterFlushCommit(ok)
    \/ \E f \in Flushers : CommitterAck(f)

Spec == Init /\ [][Next]_vars

\* SpecHook: the entry pipeline. Filters are registered while entries are
\* fired, synchronously (Hook.Fire) and asynchronously (AsyncHook.Fire, up to
\* the InsertFunc call of the goroutine fire()), with any extra fields.
NextHook ==
    \/ \E fn \in UserFilters : AddFilter(fn)
    \/ \E b \in BlacklistArgs : Blacklist(b)
    \/ \E p \in Producers, d \in RawData, ok \in BOOLEAN :
          Len(fireLog) < MaxHookFires /\ SyncFire(p, d, ok)
    \/ \E p \in Producers, d \in RawData :
          Len(fireLog) < MaxHookFires /\ FireNewEntry(p, d)
    \/ \E p \in Producers : FireAdd(p)
    \/ \E p \in Producers : FirePush(p)
    \/ CommitterBegin(TRUE)
    \/ CommitterReceive
    \/ \E ok \in BOOLEAN : CommitterInsert(ok)

SpecHook == InitHook /\ [][NextHook]_vars

\* ================================================================ claims
\* Helpers of the claims.
Fired == 1..Len(fireLog)

\* The Fire calls whose entry the filters did not discard.
Accepted == {i \in Fired : fireLog[i].out # Nil}

Discarded == {i \in Fired : fireLog[i].out = Nil}

OpenTxns == {t \in 1..Len(txlog) : txlog[t].commit = "none"}

AttemptIds == {attempts[k].e.id : k \in 1..Len(attempts)}

\* The entries of the InsertFunc calls that succeeded in a transaction whose
\* Commit succeeded, in the order of the calls.
Persisted ==
    LET sel == SelectSeq(attempts, LAMBDA a : a.ok /\ txlog[a.txn].commit = "ok")
    IN  [k \in 1..Len(sel) |-> sel[k].e]

\* Every Fire call has returned, then one thread has called Flush and Flush
\* has returned; no Fire call was made or in progress since that Flush began
\* and no other thread has called Flush.
QuietFlushReturned ==
    /\ ~overlap
    /\ \A p \in Producers : ppc[p] = "idle"
    /\ \E f \in Flushers : fpc[f] = "done" /\ \A g \in Flushers \ {f} : fpc[g] = "idle"

\* Thread f returns from Flush in this step.
FlushReturns(f) == fpc[f] # "done" /\ fpc'[f] = "done"

\* C1 as stated: once every Fire call has returned and a single subsequent
\* Flush has returned, the committed rows are exactly the non-discarded
\* entries, one row each.
C1_AsStated ==
    QuietFlushReturned =>
        /\ Len(rows) = Cardinality(Accepted)
        /\ \A i \in Accepted : \E k \in 1..Len(rows) : rows[k] = fireLog[i].out

\* C1 amended: once every Fire call has returned and a single subsequent
\* Flush has returned, InsertFunc has been called exactly once for each
\* non-discarded entry and for nothing else, every transaction has had Commit
\* called, and the committed rows are exactly the non-discarded entries whose
\* insert succeeded in a transaction whose Commit succeeded, one row each.
C1_FlushDelivers ==
    QuietFlushReturned =>
        /\ Len(attempts) = Cardinality(Accepted)
        /\ \A i \in Accepted : \E k \in 1..Len(attempts) : attempts[k].e = fireLog[i].out
        /\ OpenTxns = {}
        /\ rows = Persisted

\* C1 witness: a quiet Flush has returned after two entries were accepted and
\* one discarded, one insert failed and one row is committed.
C1_Witness ==
    /\ QuietFlushReturned
    /\ Cardinality(Accepted) = 2
    /\ Discarded # {}
    /\ Len(rows) = 1
    /\ \E k \in 1..Len(attempts) : ~attempts[k].ok

\* C2 as stated: when Flush returns, InsertFunc has been called for every
\* entry enqueued so far (entries of concurrent Fire calls included) and the
\* counter is zero.
C2_AsStated ==
    [][\A f \in Flushers : FlushReturns(f) =>
          /\ wg' = 0
          /\ \A k \in 1..Len(pushed') : pushed'[k] \in AttemptIds']_vars

\* C3 as stated: a thread that has returned from Flush received its value
\* from the goroutine fire(), which had committed and sent it.
C3_AsStated ==
    \A f \in Flushers : fpc[f] = "done" => (fgot[f] = "committer" /\ cpc = "term")

\* C4: at most one transaction is open at any moment, and once fire() has
\* terminated, or has answered a Flush, every transaction begun has had
\* Commit called.
C4_NoOpenTransaction ==
    /\ Cardinality(OpenTxns) <= 1
    /\ (cpc = "term" \/ \E f \in Flushers : fgot[f] = "committer") => OpenTxns = {}

\* C4 witness: fire() has terminated after several transactions, the last
\* of which held an inserted entry when the flush request came.
C4_Witness ==
    /\ cpc = "term"
    /\ Len(txlog) >= 2
    /\ txlog[Len(txlog)].ins > 0

\* C5: whenever the counter is zero, buf is empty and no transaction holds an
\* inserted entry without Commit having been called.
C5_ZeroMeansDrained ==
    wg = 0 =>
        /\ buf = <<>>
        /\ txnRows = <<>>
        /\ \A k \in 1..Len(attempts) : txlog[attempts[k].txn].commit # "none"

\* C5 witness: the counter is back at zero after entries went through a
\* transaction, one of them with a failed insert, and a Commit that failed.
C5_Witness ==
    /\ wg = 0
    /\ Len(attempts) >= 2
    /\ \E k \in 1..Len(attempts) : ~attempts[k].ok
    /\ \E t \in 1..Len(txlog) : txlog[t].commit = "fail"

\* C6 as stated: for every transaction on which Commit was called, by a tick
\* or by a flush request, once fire() has left it the counter has been
\* decremented once per entry inserted in it.
C6_AsStated ==
    \A t \in 1..Len(txlog) :
        (/\ txlog[t].commit # "none"
         /\ (t < Len(txlog) \/ cpc \in {"begin", "retry", "term"}))
        => txlog[t].done = txlog[t].ins

\* C7: when a filter returns nil for an entry, that filter is the last one
\* invoked, Fire returns nil in the same step without touching buf, the
\* counter or the db, and the entry is never in buf, in an InsertFunc call or
\* in a row.
C7_DiscardStopsEntry ==
    /\ [][(Len(fireLog') > Len(fireLog) /\ fireLog'[Len(fireLog')].out = Nil) =>
            LET r == fireLog'[Len(fireLog')]
            IN  /\ r.calls \in 1..r.nfs
                /\ filters[r.calls].kind = "drop"
                /\ r.ret = "nil"
                /\ UNCHANGED <<buf, wg, ppc, pent, pushed, attempts, rows, txnRows>>]_vars
    /\ [](\A i \in Discarded :
            /\ \A k \in 1..Len(buf) : buf[k].id # i
            /\ \A k \in 1..Len(pushed) : pushed[k] # i
            /\ \A k \in 1..Len(rows) : rows[k].id # i
            /\ \A p \in Producers : pent[p].id # i
            /\ i \notin AttemptIds
            /\ centry.id # i)

\* C7 witness: a synchronous and an asynchronous Fire were both discarded by
\* a filter that is not the last of the chain.
C7_Witness ==
    \E i, j \in Discarded :
        /\ fireLog[i].mode = "sync"
        /\ fireLog[j].mode = "async"
        /\ fireLog[i].calls < fireLog[i].nfs
        /\ fireLog[j].calls < fireLog[j].nfs

\* C8 as stated: a key blacklisted before a Fire call started is in no field
\* mapping that call hands to InsertFunc, whatever the other filters.
C8_AsStated ==
    \A a \in 1..Len(attempts) :
        \A j \in 1..fireLog[attempts[a].e.id].nfs :
            filters[j].kind = "blacklist" =>
                \A n \in 1..Len(filters[j].keys) :
                    filters[j].keys[n] \notin DOMAIN attempts[a].e.Data

\* C9: buf never holds more than BufSize entries; while it holds BufSize, no
\* Fire call completes its send and the only change to buf is fire() taking
\* its oldest entry.
C9_Backpressure ==
    /\ [](Len(buf) <= BufSize)
    /\ [][Len(buf) = BufSize =>
            /\ \A p \in Producers : ppc[p] = "push" => ppc'[p] = "push"
            /\ pushed' = pushed
            /\ (buf' = buf \/ buf' = Tail(buf))]_vars

\* C9 witness: buf is full and a producer is blocked in its send.
C9_Witness ==
    /\ Len(buf) = BufSize
    /\ \E p \in Producers : ppc[p] = "push"

\* C10: InsertFunc is called in the order of the sends on buf, the
\* transactions of successive inserts never go back, Commit is called on the
\* transactions in their order, so an entry's transaction has had Commit
\* called whenever a later entry's has.
C10_Fifo ==
    /\ Len(attempts) <= Len(pushed)
    /\ \A k \in 1..Len(attempts) : attempts[k].e.id = pushed[k]
    /\ \A a, b \in 1..Len(attempts) :
          a < b =>
            /\ attempts[a].txn <= attempts[b].txn
            /\ txlog[attempts[b].txn].commit # "none"
                  => txlog[attempts[a].txn].commit # "none"
    /\ \A a, b \in 1..Len(commitSeq) : a < b => commitSeq[a] < commitSeq[b]

\* C10 witness: three entries were sent; the first two were inserted in two
\* transactions, both committed, and the third is still in buf.
C10_Witness ==
    /\ Len(attempts) = 2
    /\ attempts[1].txn < attempts[2].txn
    /\ txlog[attempts[2].txn].commit # "none"
    /\ Len(pushed) = 3
    /\ Len(buf) = 1

\* SpecDeliver: Spec without Flush calls, with the scheduling the delivery of
\* the entries rests on.
NextDeliver ==
    \/ \E p \in Producers, d \in TestData : FireNewEntry(p, d)
    \/ \E p \in Producers : FireAdd(p)
    \/ \E p \in Producers : FirePush(p)
    \/ Tick
    \/ \E ok \in BOOLEAN : CommitterBegin(ok)
    \/ CommitterRetry
    \/ CommitterReceive
    \/ \E ok \in BOOLEAN : CommitterInsert(ok)
    \/ CommitterTick
    \/ \E ok \in BOOLEAN : CommitterCommit(ok)
    \/ CommitterDone

\* A thread inside Fire goes on (the Go scheduler runs every runnable
\* goroutine).
FairProducers ==
    \A p \in Producers : WF_vars(FireAdd(p)) /\ WF_vars(FirePush(p))

\* The Ticker keeps ticking; Begin succeeds again and again when it is called
\* again and again; InsertFunc and Commit return; fire() is scheduled; a case
\* of a select that is ready again and again is taken (select chooses among
\* the ready cases at random).
FairCommitter ==
    /\ WF_vars(Tick)
    /\ SF_vars(CommitterBegin(TRUE))
    /\ WF_vars(CommitterRetry)
    /\ SF_vars(CommitterReceive)
    /\ SF_vars(CommitterTick)
    /\ WF_vars(\E ok \in BOOLEAN : CommitterInsert(ok))
    /\ WF_vars(\E ok \in BOOLEAN : CommitterCommit(ok))
    /\ WF_vars(CommitterDone)

SpecDeliver == Init /\ [][NextDeliver]_vars /\ FairProducers /\ FairCommitter

\* SpecFlush: one thread calls Flush, once, when no Fire call is in progress,
\* and no Fire call is made from then on; with the scheduling of SpecDeliver
\* and that of the thread in Flush.
Caller == CHOOSE f \in Flushers : TRUE

NextFlush ==
    \/ \E p \in Producers, d \in TestData :
          fpc[Caller] = "idle" /\ FireNewEntry(p, d)
    \/ \E p \in Producers : FireAdd(p)
    \/ \E p \in Producers : FirePush(p)
    \/ Tick
    \/ (\A p \in Producers : ppc[p] = "idle") /\ FlushCall(Caller)
    \/ fpc[Caller] = "wait" /\ FlushWait(Caller)
    \/ FlushSend(Caller)
    \/ \E ok \in BOOLEAN : CommitterBegin(ok)
    \/ CommitterRetry
    \/ CommitterReceive
    \/ \E ok \in BOOLEAN : CommitterInsert(ok)
    \/ CommitterTick
    \/ \E ok \in BOOLEAN : CommitterCommit(ok)
    \/ CommitterDone
    \/ \E ok \in BOOLEAN : CommitterFlushCommit(ok)
    \/ CommitterAck(Caller)

\* The thread in Flush goes on; the flush case of fire()'s select is taken
\* when it is ready again and again; the Commit of the flush case returns.
FairFlush ==
    /\ WF_vars(fpc[Caller] = "wait" /\ FlushWait(Caller))
    /\ SF_vars(FlushSend(Caller))
    /\ WF_vars(\E ok \in BOOLEAN : CommitterFlushCommit(ok))
    /\ WF_vars(CommitterAck(Caller))

SpecFlush ==
    Init /\ [][NextFlush]_vars /\ FairProducers /\ FairCommitter /\ FairFlush

\* SpecTicker: Spec, and threads that store a new ticker in hook.Ticker, as
\* the repository's test does after NewAsyncHook.
NextTicker ==
    \/ Next
    \/ SetTicker

SpecTicker == Init /\ [][NextTicker]_vars

\* SpecFlushEvery: Spec, and threads that call FlushEvery.
NextFlushEvery ==
    \/ Next
    \/ FlushEvery

SpecFlushEvery == Init /\ [][NextFlushEvery]_vars

\* SpecLock: SpecHook's asynchronous part with newEntry in its two steps, so
\* that AddFilter and Blacklist calls fall between them.
NextLock ==
    \/ \E fn \in UserFilters : AddFilter(fn)
    \/ \E b \in BlacklistArgs : Blacklist(b)
    \/ \E p \in Producers, d \in RawData :
          Len(fireLog) < MaxHookFires /\ NewEntryRLock(p, d)
    \/ \E p \in Producers, n \in 0 .. MaxFilters : NewEntryRange(p, n)
    \/ \E p \in Producers : FireAdd(p)
    \/ \E p \in Producers : FirePush(p)
    \/ CommitterBegin(TRUE)
    \/ CommitterReceive
    \/ \E ok \in BOOLEAN : CommitterInsert(ok)

SpecLock == InitHook /\ [][NextLock]_vars

\* C11: an asynchronous Fire whose entry is built and counted can complete its
\* send whenever buf is not full, wherever fire() is; the send itself touches
\* neither fire() nor the db and ends the call; the call returns nil, whatever
\* happens to the entry later.
C11_FireReturnsAtEnqueue ==
    /\ [](\A p \in Producers :
            (ppc[p] = "push" /\ Len(buf) < BufSize) => ENABLED FirePush(p))
    /\ [][Len(pushed') > Len(pushed) =>
            /\ UNCHANGED <<commVars, dbVars, attempts, commitSeq, wg>>
            /\ \E p \in Producers : ppc[p] = "push" /\ ppc'[p] = "idle"]_vars
    /\ [](\A i \in Fired : fireLog[i].mode = "async" => fireLog[i].ret = "nil")

\* C11 witness: a Fire call has returned (its entry was sent, its producer is
\* idle) while Begin had failed and nothing was inserted; and in the same run
\* an earlier entry's insert had failed.
C11_Witness ==
    /\ cpc = "retry"
    /\ Len(pushed) = 2
    /\ Len(attempts) = 1
    /\ ~attempts[1].ok
    /\ \A p \in Producers : ppc[p] = "idle"
    /\ \A i \in Accepted : fireLog[i].ret = "nil"

\* A synchronous Fire is made in this step.
SyncFireStep ==
    /\ Len(fireLog') = Len(fireLog) + 1
    /\ fireLog'[Len(fireLog')].mode = "sync"

\* C12: a synchronous Fire of an entry that is not discarded makes exactly one
\* InsertFunc call, outside any transaction, within the call itself, and
\* returns nil exactly when that call succeeded; it leaves buf, the counter,
\* the producers and fire() alone.
C12_SyncFireOneWrite ==
    [][SyncFireStep =>
        LET r == fireLog'[Len(fireLog')]
        IN  /\ UNCHANGED <<buf, wg, ppc, pent, pushed, commVars, txnRows, txlog>>
            /\ IF r.out = Nil
               THEN attempts' = attempts /\ rows' = rows /\ r.ret = "nil"
               ELSE /\ Len(attempts') = Len(attempts) + 1
                    /\ SubSeq(attempts', 1, Len(attempts)) = attempts
                    /\ attempts'[Len(attempts')].e = r.out
                    /\ attempts'[Len(attempts')].txn = 0
                    /\ r.ret = (IF attempts'[Len(attempts')].ok THEN "nil" ELSE "err")
                    /\ rows' = (IF attempts'[Len(attempts')].ok
                                THEN Append(rows, r.out) ELSE rows)]_vars

\* C12 witness: one synchronous Fire returned the error of its write, another
\* one succeeded and left its row.
C12_Witness ==
    \E i, j \in Fired :
        /\ fireLog[i].mode = "sync" /\ fireLog[i].out # Nil /\ fireLog[i].ret = "err"
        /\ fireLog[j].mode = "sync" /\ fireLog[j].out # Nil /\ fireLog[j].ret = "nil"
        /\ Len(rows) = 1

\* C17: while fire() waits after a failed Begin, it receives nothing from buf
\* (buf changes only by a producer's send), calls neither Begin, InsertFunc
\* nor Commit, and leaves the wait only by consuming a tick, to call Begin
\* again; a failed Begin always enters that wait.
C17_RetryWaitsForTick ==
    /\ [][cpc = "retry" =>
            /\ buf' = buf \/ \E p \in Producers : buf' = Append(buf, pent[p])
            /\ UNCHANGED <<dbVars, attempts, commitSeq, txn, numEntries, centry>>
            /\ cpc' \in {"retry", "begin"}
            /\ cpc' = "begin" => tick /\ ~tick' /\ buf' = buf]_vars
    /\ [][(cpc = "begin" /\ cpc' # "begin" /\ txlog' = txlog) => cpc' = "retry"]_vars

\* C17 witness: Begin has failed and fire() waits while two entries are in buf
\* and a tick is there to be consumed.
C17_Witness ==
    /\ cpc = "retry"
    /\ txlog = <<>>
    /\ Len(buf) = 2
    /\ tick

\* C18: a transaction committed on a tick had at least one InsertFunc call
\* (the code counts the call, failed or not, in numEntries); a transaction
\* without any is committed only by the flush case; a tick consumed in the
\* select loop with numEntries = 0 changes nothing but the tick.
C18_TickCommitsNonEmpty ==
    /\ [](\A t \in DOMAIN txlog :
            /\ txlog[t].by = "tick" => txlog[t].ins > 0
            /\ (txlog[t].commit # "none" /\ txlog[t].ins = 0) => txlog[t].by = "flush")
    /\ [](cpc = "commit" => numEntries > 0)
    /\ [][(cpc = "select" /\ tick /\ ~tick' /\ numEntries = 0) =>
            /\ cpc' = "select"
            /\ UNCHANGED <<buf, wg, dbVars, commVars, histVars>>]_vars

\* C18 witness: the first transaction was committed on a tick with its one
\* entry, the second one, empty, was committed by the flush case, after a
\* tick was consumed in it.
C18_Witness ==
    /\ Len(txlog) = 2
    /\ txlog[1].by = "tick" /\ txlog[1].ins = 1
    /\ txlog[2].by = "flush" /\ txlog[2].ins = 0
    /\ cpc = "term"

\* C19: fire() returns only from the flush case: it terminates only after the
\* answer to a flusher, which follows only the flush case's Commit, which
\* follows only the receipt of a flush request in the select loop. A failed
\* Begin leads to the wait for a tick, a failed InsertFunc back to the select
\* loop, a failed Commit on a tick to the Done loop and the next Begin.
C19_OnlyFlushTerminates ==
    /\ [][/\ (cpc' = "term" /\ cpc # "term") => cpc = "ack"
          /\ (cpc' = "ack" /\ cpc # "ack") => cpc = "fcommit"
          /\ (cpc' = "fcommit" /\ cpc # "fcommit") =>
                /\ cpc = "select"
                /\ \E f \in Flushers : fpc[f] = "send" /\ fpc'[f] = "recv"
          /\ (cpc = "begin" /\ cpc' # "begin") => cpc' \in {"select", "retry"}
          /\ (cpc = "retry" /\ cpc' # "retry") => cpc' = "begin"
          /\ (cpc = "insert" /\ cpc' # "insert") => cpc' = "select"
          /\ (cpc = "commit" /\ cpc' # "commit") => cpc' = "done"
          /\ (cpc = "done" /\ cpc' # "done") => cpc' = "begin"]_vars
    /\ [](cpc = "term" => \E t \in DOMAIN txlog : txlog[t].by = "flush")

\* C19 witness: in the first transaction the insert failed and the commit
\* failed; fire() opened a second transaction and inserted the entry sent
\* afterwards.
C19_Witness ==
    /\ Len(txlog) = 2
    /\ txlog[1].commit = "fail" /\ txlog[1].by = "tick"
    /\ Len(attempts) = 2
    /\ attempts[1].txn = 1 /\ ~attempts[1].ok
    /\ attempts[2].txn = 2 /\ attempts[2].ok
    /\ cpc = "select"

\* C16: when a Fire call has built its entry, the caller's field mapping is
\* what it was when Fire was called, whatever the extra fields and the
\* filters did.
C16_CallerEntryUnchanged ==
    \A i \in Fired : fireLog[i].after = fireLog[i].raw

\* C16 witness: with extra fields set, a synchronous and an asynchronous Fire
\* were made with the field "filterMe"; the blacklist removed it from the copy
\* of one, and the other was discarded after the extra fields were merged.
C16_Witness ==
    /\ Extra # EmptyMap
    /\ \E i, j \in Fired :
        /\ fireLog[i].mode = "sync" /\ fireLog[j].mode = "async"
        /\ "filterMe" \in DOMAIN fireLog[i].raw
        /\ "filterMe" \in DOMAIN fireLog[j].raw
        /\ \E k, l \in {i, j} :
            /\ fireLog[k].out # Nil
            /\ "filterMe" \notin DOMAIN fireLog[k].out.Data
            /\ fireLog[l].out = Nil
            /\ "ignore" \in DOMAIN fireLog[l].raw

\* The composition of the filters fs applied to e, by the last filter: the
\* last filter applied to what the filters before it make of e; nothing once
\* a filter has discarded.
RECURSIVE Compose(_, _)
Compose(fs, e) ==
    IF fs = <<>> THEN e
    ELSE LET prev == Compose(SubSeq(fs, 1, Len(fs) - 1), e)
         IN  IF prev = Nil THEN Nil ELSE ApplyFilter(fs[Len(fs)], prev)

\* C20: the entry a Fire call hands on is the composition, in registration
\* order, of the filters registered at that time, applied to the extra fields
\* with the caller's fields on top; AddFilter and Blacklist only append to the
\* list, Blacklist appends its blackListFilter; a filter that discarded an
\* entry is never a blacklist filter.
C20_FiltersComposeInOrder ==
    /\ [](\A i \in Fired :
            /\ fireLog[i].nfs <= Len(filters)
            /\ fireLog[i].out =
                 Compose(SubSeq(filters, 1, fireLog[i].nfs),
                         [id |-> i, Data |-> MergeInto(Extra, fireLog[i].raw)])
            /\ fireLog[i].out = Nil => filters[fireLog[i].calls].kind # "blacklist")
    /\ [][filters' # filters =>
            /\ Len(filters') = Len(filters) + 1
            /\ SubSeq(filters', 1, Len(filters)) = filters]_vars
    /\ [][(filters' # filters /\ filters'[Len(filters')].kind = "blacklist") =>
            \E b \in BlacklistArgs : filters' = Append(filters, blackListFilter(b))]_vars

\* C20 witness: an entry with the field "filterMe" went through the blacklist
\* of "filterMe" and then through a filter that sets "filterMe": it has the
\* field as set, where the opposite order leaves it without the field; and
\* an entry was fired when only the first of the two was registered.
C20_Witness ==
    /\ Len(filters) = 2
    /\ filters[1].kind = "blacklist" /\ filters[2].kind = "set"
    /\ \E i, j \in Fired :
        /\ fireLog[i].nfs = 2
        /\ "filterMe" \in DOMAIN fireLog[i].raw
        /\ fireLog[i].out # Nil
        /\ "filterMe" \in DOMAIN fireLog[i].out.Data
        /\ fireLog[i].out.Data["filterMe"] = "set"
        /\ fireLog[j].nfs = 1
        /\ "filterMe" \in DOMAIN fireLog[j].raw
        /\ "filterMe" \notin DOMAIN fireLog[j].out.Data

\* C13: as stated. The list of filters changes only while no thread is inside
\* newEntry.
C13_AsStated ==
    [][filters' # filters => \A p \in Producers : ppc[p] # "build"]_vars

\* C14: as stated. hook.Ticker is replaced only by fire(), on a message it
\* received in its select loop.
C14_AsStated ==
    [][Ticker' # Ticker => (Ticker'.by = "fire" /\ cpc = "select")]_vars

\* The ids of the entries fire() holds or has handled: in buf, received and
\* about to be inserted, or handed to InsertFunc.
InHand ==
    {buf[k].id : k \in 1..Len(buf)} \cup AttemptIds
        \cup (IF cpc = "insert" THEN {centry.id} ELSE {})

\* C15: the step in which fire() takes a new interval leaves it in its select
\* loop with the same transaction, the same entries in buf, the same rows
\* inserted and the same count; at any time every entry sent is in buf, in
\* fire()'s hand or was handed to InsertFunc, and the rows inserted in the
\* open transaction are there until its Commit; and a quiet Flush that has
\* returned after a change of interval has left every non-discarded entry
\* with its InsertFunc call and every transaction with its Commit.
C15_FlushEveryKeepsEntries ==
    /\ [][Ticker' # Ticker =>
            /\ cpc = "select" /\ cpc' = "select"
            /\ UNCHANGED <<buf, wg, dbVars, txn, numEntries, centry, histVars>>]_vars
    /\ [](\A k \in 1..Len(pushed) : pushed[k] \in InHand)
    /\ [](txnRows =
            LET sel == SelectSeq(attempts, LAMBDA a : a.ok /\ txlog[a.txn].commit = "none")
            IN  [k \in 1..Len(sel) |-> sel[k].e])
    /\ []((Ticker.by = "fire" /\ QuietFlushReturned) =>
            /\ \A i \in Accepted : Cardinality({k \in 1..Len(attempts) :
                                       attempts[k].e = fireLog[i].out}) = 1
            /\ OpenTxns = {}
            /\ rows = Persisted)

\* C15 witness: the interval was changed while one entry was in buf and
\* another inserted in the open transaction; since then both were committed
\* and a quiet Flush has returned.
C15_Witness ==
    /\ Ticker.by = "fire" /\ Ticker.queued /\ Ticker.inserted
    /\ QuietFlushReturned
    /\ Cardinality(Accepted) = 2
    /\ Len(rows) = 2

\* The number of hook.wg.Add(1) made by Fire calls: those that have sent
\* their entry and those about to.
Increments == Len(pushed) + Cardinality({p \in Producers : ppc[p] = "push"})

\* The number of hook.wg.Done() made by fire(), over all transactions.
RECURSIVE DonesUpTo(_)
DonesUpTo(t) == IF t = 0 THEN 0 ELSE txlog[t].done + DonesUpTo(t - 1)

Decrements == DonesUpTo(Len(txlog))

\* C23: the counter is the number of Add(1) made by Fire minus the number of
\* Done() made by fire(), and it is never negative.
C23_CounterNeverNegative ==
    /\ wg = Increments - Decrements
    /\ Decrements <= Increments
    /\ wg >= 0

\* C23 witness: fire() has made its two Done() after a transaction with a
\* failed insert, a thread is in Flush, and a third Fire has made its Add(1).
C23_Witness ==
    /\ Decrements = 2
    /\ Increments = 3
    /\ wg = 1
    /\ \E k \in 1..Len(attempts) : ~attempts[k].ok
    /\ \E f \in Flushers : fpc[f] = "send"

\* C24: once fire() has answered a Flush it has returned: from then on it
\* stays terminated, no transaction is begun, nothing is received from buf
\* (buf only grows by the producers' sends), no InsertFunc, Commit or Done is
\* made, and no thread returns from Flush; no thread that has sent its
\* request is left waiting for an answer.
C24_TerminatedIsPermanent ==
    /\ []((\E f \in Flushers : fgot[f] = "committer") => cpc = "term")
    /\ [](cpc = "term" => \A f \in Flushers : fpc[f] # "recv")
    /\ [][cpc = "term" =>
            /\ cpc' = "term"
            /\ UNCHANGED <<dbVars, txn, numEntries, centry, di, attempts, commitSeq, fgot>>
            /\ buf' = buf \/ \E p \in Producers : buf' = Append(buf, pent[p])
            /\ wg' >= wg
            /\ \A f \in Flushers : fpc'[f] = "done" => fpc[f] = "done"]_vars

\* C24 witness: fire() has terminated after its answer to one thread; another
\* thread is blocked in Flush on its send, and an entry sent since the last
\* Done waits in buf.
C24_Witness ==
    /\ cpc = "term"
    /\ \E f, g \in Flushers :
        /\ fpc[f] = "done" /\ fgot[f] = "committer"
        /\ fpc[g] = "send"
    /\ Len(buf) = 1
    /\ wg = 1

\* InsertFunc was called for entry i and Commit was called on the
\* transaction of that call.
Delivered(i) ==
    \E k \in 1..Len(attempts) :
        attempts[k].e.id = i /\ txlog[attempts[k].txn].commit # "none"

\* C21: without Flush calls, every entry sent on buf is eventually handed to
\* InsertFunc in a transaction on which Commit is eventually called, and the
\* counter is eventually zero for good (the producers make finitely many
\* Fire calls).
C21_EventuallyDelivered ==
    /\ \A i \in 1..MaxFires :
          (\E k \in 1..Len(pushed) : pushed[k] = i) ~> Delivered(i)
    /\ <>[](wg = 0)

\* C21 witness: a first entry is delivered, and Begin has failed while an
\* entry waits in buf and a Fire call is about to send another.
C21_Witness ==
    /\ cpc = "retry"
    /\ Len(buf) = 1
    /\ \E p \in Producers : ppc[p] = "push"
    /\ \E i \in Fired : Delivered(i)

\* C22: a Flush call made by the only caller when no Fire call is in progress
\* eventually returns, wherever fire() is when it is made: in the wait after
\* a failed Begin, or with entries inserted in a transaction not yet committed.
C22_FlushReturns ==
    /\ (fpc[Caller] \in {"wait", "send", "recv"}) ~> (fpc[Caller] = "done")
    /\ (fpc[Caller] = "wait" /\ cpc = "retry") ~> (fpc[Caller] = "done")
    /\ (fpc[Caller] = "wait" /\ txnRows # <<>>) ~> (fpc[Caller] = "done")

\* C22 witness: the thread is in Flush, blocked in Wait, while fire() waits
\* for a tick after a failed Begin with an entry in buf, an earlier
\* transaction having been committed.
C22_Witness ==
    /\ fpc[Caller] = "wait"
    /\ cpc = "retry"
    /\ Len(buf) >= 1
    /\ Len(txlog) >= 1
    /\ \A p \in Producers : ppc[p] = "idle"

====
